---- MODULE Spec2Model ----
(***************************************************************************)
(* Model of the r/ausjdocs scrapers:                                       *)
(*   - CommentScraper._extract_comments  (comment_scraper.py, recursive)   *)
(*   - RedditScraper._extract_comments   (reddit_scraper.py, stack)        *)
(*   - RedditScraper.fetch_with_retry, search_subreddit and main's         *)
(*     de-duplication loop (reddit_scraper.py)                             *)
(* Fields of a comment or post that are copied through unchanged and are   *)
(* never read by a branch (body, score, created_utc, ...) are left out of  *)
(* the records.                                                            *)
(***************************************************************************)
EXTENDS Integers, Sequences, FiniteSets

VARIABLES
  \* comment extraction
  tree, stack, comments, cpc, recResult, rpc,
  \* fetch_with_retry
  fpc, attempt, fres, outcomes, jsonErrorClasses,
  \* search_subreddit
  spc, posts, after, limit, result, served, requested,
  \* main
  mpc, term, all_posts, seen_ids, mposts, j, kept_before

cvars == <<tree, stack, comments, cpc, recResult, rpc>>
fvars == <<fpc, attempt, fres, outcomes, jsonErrorClasses>>
svars == <<spc, posts, after, limit, result, served, requested>>
mvars == <<mpc, term, all_posts, seen_ids, mposts, j, kept_before>>
vars == <<cvars, fvars, svars, mvars>>

\* ------------------------------------------------------------------ bounds
\* largest number of nodes in an input comment tree
MaxNodes == 3

\* ------------------------------------------------------------ JSON values
\* marker for a key that is absent from a JSON object
Missing == "<missing>"
\* JSON null / Python None where a string may stand
Null == "<null>"

\* dict.get(key, default)
Get(d, default) == IF d = Missing THEN default ELSE d

\* the authors whose comments comment_scraper.py skips
ExcludedAuthors == {"[deleted]", "AutoModerator"}

\* author values of the input trees: a normal account, the excluded ones,
\* and a comment object without the key
Authors == {"alice", Missing} \cup ExcludedAuthors

\* the forms of a comment's 'replies' value without children: key absent,
\* the empty string "" the API sends for a leaf, a truthy value that is not
\* a dict
LeafReplies == { [shape |-> s, children |-> <<>>] : s \in {"absent", "empty", "other"} }

\* a 'more' stub: only item['kind'] is ever read
Stub == [kind |-> "more", author |-> Missing, replies |-> [shape |-> "absent", children |-> <<>>]]

RECURSIVE Forests(_), TreesOfSize(_)
\* the t1/more nodes with exactly k nodes in their subtree
TreesOfSize(k) ==
  IF k = 1
  THEN {Stub} \cup
       { [kind |-> "t1", author |-> a, replies |-> r] :
            a \in Authors,
            r \in LeafReplies \cup {[shape |-> "dict", children |-> <<>>]} }
  ELSE { [kind |-> "t1", author |-> a, replies |-> [shape |-> "dict", children |-> f]] :
            a \in Authors, f \in Forests(k - 1) }
\* the children lists with exactly n nodes in total
Forests(n) ==
  IF n = 0
  THEN {<<>>}
  ELSE UNION { { <<t>> \o rest : t \in TreesOfSize(k), rest \in Forests(n - k) } : k \in 1..n }

\* t is a children list of at most MaxNodes nodes
IsInputTree(t) ==
  \/ t = <<>>
  \/ \E n \in 1..MaxNodes : \E k \in 1..n : \E rest \in Forests(n - k) :
       IF k = 1
       THEN \E first \in TreesOfSize(1) : t = <<first>> \o rest
       ELSE \E a \in Authors : \E f \in Forests(k - 1) :
              t = <<[kind |-> "t1", author |-> a,
                     replies |-> [shape |-> "dict", children |-> f]]>> \o rest

\* 'replies' in comment and comment['replies'] and isinstance(.., dict)
HasDictReplies(item) == item.replies.shape = "dict"

\* ------------------------------------------- comment_scraper.py (recursive)
RECURSIVE ExtractRec(_, _)
ExtractRec(comment_data, depth) ==
  IF comment_data = <<>>
  THEN <<>>
  ELSE LET item == Head(comment_data)
           rest == ExtractRec(Tail(comment_data), depth)
       IN IF item.kind # "t1"
          THEN rest
          ELSE IF item.author \in ExcludedAuthors
          THEN rest
          ELSE << [author |-> Get(item.author, ""),
                   depth |-> depth,
                   replies |-> IF HasDictReplies(item)
                               THEN ExtractRec(item.replies.children, depth + 1)
                               ELSE <<>>] >> \o rest

\* the nested result read in pre-order: a record, then its 'replies'
RECURSIVE FlattenNested(_)
FlattenNested(cs) ==
  IF cs = <<>>
  THEN <<>>
  ELSE <<[author |-> Head(cs).author, depth |-> Head(cs).depth]>>
         \o FlattenNested(Head(cs).replies) \o FlattenNested(Tail(cs))

\* --------------------------------------------- reddit_scraper.py (stack)
\* the body of 'for item in data' for one popped (data, depth):
\* <<records appended, entries pushed>>
RECURSIVE ForItems(_, _)
ForItems(data, depth) ==
  IF data = <<>>
  THEN [out |-> <<>>, pushed |-> <<>>]
  ELSE LET item == Head(data)
           rest == ForItems(Tail(data), depth)
       IN IF item.kind # "t1"
          THEN rest
          ELSE [out |-> <<[author |-> Get(item.author, ""), depth |-> depth]>> \o rest.out,
                pushed |-> (IF HasDictReplies(item)
                            THEN <<[data |-> item.replies.children, depth |-> depth + 1]>>
                            ELSE <<>>) \o rest.pushed]

CInit ==
  /\ IsInputTree(tree)
  /\ stack = <<[data |-> tree, depth |-> 0]>>
  /\ comments = <<>>
  /\ cpc = "loop"
  /\ recResult = <<>>
  /\ rpc = "start"

\* one iteration of 'while stack': pop the last entry, run the for loop
StackIter ==
  /\ cpc = "loop"
  /\ stack # <<>>
  /\ LET top == stack[Len(stack)]
         r == ForItems(top.data, top.depth)
     IN /\ comments' = comments \o r.out
        /\ stack' = SubSeq(stack, 1, Len(stack) - 1) \o r.pushed
  /\ UNCHANGED <<tree, cpc, recResult, rpc>>

\* the stack is empty: return comments
StackReturn ==
  /\ cpc = "loop"
  /\ stack = <<>>
  /\ cpc' = "done"
  /\ UNCHANGED <<tree, stack, comments, recResult, rpc>>

\* CommentScraper._extract_comments(children), depth defaulting to 0
RecExtract ==
  /\ rpc = "start"
  /\ recResult' = ExtractRec(tree, 0)
  /\ rpc' = "done"
  /\ UNCHANGED <<tree, stack, comments, cpc>>

\* ----------------------------------------------------- reddit_scraper.py
BASE_URL == "https://old.reddit.com"

\* the loop written as range(retries + 1)
Retries_OneMore == 3 + 1

\* retries=3, the default of fetch_with_retry
Retries == 3

\* most pages one search asks for before the model stops following it
MaxPages == 2
\* most posts the server puts on one page
MaxPageLen == 2
\* largest limit passed to search_subreddit
MaxLimit == 3
\* number of search terms main loops over
NumTerms == 2

\* 'id' values of the raw post records
RawIds == {"p1", "p2"}
\* 'permalink' values of the raw post records, the key may be absent
RawPermalinks == {Missing}
\* values of data['data'].get('after'): null, the empty string, a token
Cursors == {Null, "", "t3_a"}

RECURSIVE SeqsUpTo(_, _)
\* the sequences over S of length 0..n
SeqsUpTo(S, n) ==
  IF n = 0 THEN {<<>>}
  ELSE LET shorter == SeqsUpTo(S, n - 1)
       IN shorter \cup { Append(s, x) : s \in {t \in shorter : Len(t) = n - 1}, x \in S }

\* Python None as returned by fetch_with_retry
NonePayload == [kind |-> "none", children |-> <<>>, after |-> Null]
\* a decoded body that is falsy, such as {}
EmptyJson == [kind |-> "empty", children |-> <<>>, after |-> Null]
\* a decoded, non-empty body without the 'data' key
NoShape == [kind |-> "noshape", children |-> <<>>, after |-> Null]
\* {data: {children: [{data: {id}}...], after}}
PagePayloads ==
  { [kind |-> "page", children |-> c, after |-> a] :
       c \in SeqsUpTo({[id |-> i, permalink |-> l] : i \in RawIds, l \in RawPermalinks}, MaxPageLen), a \in Cursors }
Payloads == PagePayloads \cup {EmptyJson, NoShape}

\* truth value of a decoded body or of None
TruthyData(d) == d.kind \notin {"none", "empty"}
\* truth value of a cursor
TruthyStr(c) == c \notin {Null, ""}

\* the classes of the exception response.json() raises on a bad body:
\* requests >= 2.27 raises requests.exceptions.JSONDecodeError, a subclass of
\* both RequestException and json.JSONDecodeError; older versions raise
\* json.JSONDecodeError, or simplejson's error, which is neither
JsonErrorBuilds ==
  { {"RequestException", "JSONDecodeError"}, {"JSONDecodeError"}, {"ValueError"} }

\* the except clause of fetch_with_retry that handles an exception, in
\* source order
ExceptClause(classes) ==
  IF "RequestException" \in classes THEN "retry"
  ELSE IF "JSONDecodeError" \in classes THEN "break"
  ELSE "propagate"

\* 'return posts', the slice forgotten
Take_NoTruncate(s, n) == s

\* 'return []' where the loop was left early
Take_Nothing(s, n) == <<>>

\* posts[:limit] for limit >= 0
Take(s, n) == SubSeq(s, 1, IF n < Len(s) THEN n ELSE Len(s))

\* 'id' and 'url' of the ten fields
extract_post_data(post_data) ==
  [id |-> Get(post_data.id, ""), url |-> <<BASE_URL, Get(post_data.permalink, "")>>]

\* the for loop over children: posts.append(extract_post_data(child['data']))
ExtractAll(children) == [i \in 1..Len(children) |-> extract_post_data(children[i])]

\* the cursor never sent
AfterParam_Never(a) == Missing

\* params['after'] of a request: set only 'if after'
AfterParam(a) == IF TruthyStr(a) THEN a ELSE Missing

\* the membership test left out
IsNew_Always(post, seen) == TRUE

\* post['id'] not in seen_ids
IsNew(post, seen) == post.id \notin seen

FIdle ==
  /\ fpc = "idle"
  /\ attempt = 0
  /\ fres = NonePayload
  /\ outcomes = <<>>

\* locals of search_subreddit at its first line
SStart ==
  /\ posts = <<>>
  /\ after = Null
  /\ result = <<>>
  /\ served = <<>>
  /\ requested = <<>>

MIdle ==
  /\ mpc = "off"
  /\ term = 1
  /\ all_posts = <<>>
  /\ seen_ids = {}
  /\ mposts = <<>>
  /\ j = 1
  /\ kept_before = <<>>

CIdle ==
  /\ tree = <<>>
  /\ stack = <<>>
  /\ comments = <<>>
  /\ cpc = "done"
  /\ recResult = <<>>
  /\ rpc = "done"

\* top of 'while True': build params and call fetch_with_retry
LoopTop ==
  /\ spc = "loop"
  /\ Len(requested) < MaxPages
  /\ requested' = Append(requested, AfterParam(after))
  /\ spc' = "fetch"
  /\ fpc' = "try"
  /\ attempt' = 0
  /\ outcomes' = <<>>
  /\ fres' = NonePayload
  /\ UNCHANGED <<posts, after, limit, result, served, jsonErrorClasses>>
  /\ UNCHANGED <<cvars, mvars>>

\* what follows an exception raised inside the try block
Handle(classes) ==
  LET clause == ExceptClause(classes)
  IN IF clause = "retry"
     THEN IF attempt + 1 < Retries
          THEN attempt' = attempt + 1 /\ fpc' = "try" /\ fres' = fres
          ELSE attempt' = attempt /\ fpc' = "returned" /\ fres' = NonePayload
     ELSE IF clause = "break"
     THEN attempt' = attempt /\ fpc' = "returned" /\ fres' = NonePayload
     ELSE attempt' = attempt /\ fpc' = "raised" /\ fres' = fres

\* requests.get and raise_for_status pass, response.json() decodes
AttemptOk ==
  /\ fpc = "try"
  /\ \E p \in Payloads :
       /\ outcomes' = Append(outcomes, [kind |-> "ok", payload |-> p])
       /\ fres' = p
  /\ fpc' = "returned"
  /\ UNCHANGED <<attempt, jsonErrorClasses>>
  /\ UNCHANGED <<cvars, svars, mvars>>

\* requests.get or raise_for_status raises a RequestException
AttemptTransportFailure ==
  /\ fpc = "try"
  /\ outcomes' = Append(outcomes, [kind |-> "transport", payload |-> NonePayload])
  /\ Handle({"RequestException"})
  /\ UNCHANGED jsonErrorClasses
  /\ UNCHANGED <<cvars, svars, mvars>>

\* the transport succeeds and response.json() cannot decode the body
AttemptDecodeFailure ==
  /\ fpc = "try"
  /\ outcomes' = Append(outcomes, [kind |-> "undecodable", payload |-> NonePayload])
  /\ Handle(jsonErrorClasses)
  /\ UNCHANGED jsonErrorClasses
  /\ UNCHANGED <<cvars, svars, mvars>>

\* search_subreddit from 'if not data' to the end of the iteration; a
\* break runs the return statement
HandleData ==
  /\ spc = "fetch"
  /\ fpc = "returned"
  /\ fpc' = "idle"
  /\ LET data == fres
     IN IF ~TruthyData(data)
        THEN /\ result' = Take(posts, limit)
             /\ spc' = "returned"
             /\ UNCHANGED <<posts, after, served>>
        ELSE IF data.kind = "noshape"
        THEN /\ spc' = "raised"
             /\ UNCHANGED <<posts, after, result, served>>
        ELSE /\ served' = Append(served, data)
             /\ IF data.children = <<>>
                THEN /\ result' = Take(posts, limit)
                     /\ spc' = "returned"
                     /\ UNCHANGED <<posts, after>>
                ELSE /\ posts' = posts \o ExtractAll(data.children)
                     /\ after' = data.after
                     /\ IF ~TruthyStr(data.after)
                        THEN /\ result' = Take(posts', limit)
                             /\ spc' = "returned"
                        ELSE /\ spc' = "loop"
                             /\ UNCHANGED result
  /\ UNCHANGED <<attempt, fres, outcomes, jsonErrorClasses, limit, requested>>
  /\ UNCHANGED <<cvars, mvars>>

\* an exception fetch_with_retry does not catch leaves search_subreddit
SearchRaise ==
  /\ spc = "fetch"
  /\ fpc = "raised"
  /\ spc' = "raised"
  /\ UNCHANGED <<fpc, attempt, fres, outcomes, jsonErrorClasses>>
  /\ UNCHANGED <<posts, after, limit, result, served, requested>>
  /\ UNCHANGED <<cvars, mvars>>

\* one call search_subreddit(subreddit, query, limit)
SInit ==
  /\ CIdle
  /\ MIdle
  /\ FIdle
  /\ jsonErrorClasses \in JsonErrorBuilds
  /\ limit \in 0..MaxLimit
  /\ spc = "loop"
  /\ SStart

SNext == LoopTop \/ AttemptOk \/ AttemptTransportFailure \/ AttemptDecodeFailure
           \/ HandleData \/ SearchRaise

SpecSearch == SInit /\ [][SNext]_vars

\* ------------------------------------------------------------------ main
\* 'for term in search_terms': call search_subreddit
MainSearch ==
  /\ mpc = "for"
  /\ term <= NumTerms
  /\ mpc' = "searching"
  /\ spc' = "loop"
  /\ posts' = <<>>
  /\ after' = Null
  /\ result' = <<>>
  /\ served' = <<>>
  /\ requested' = <<>>
  /\ UNCHANGED <<limit, term, all_posts, seen_ids, mposts, j, kept_before>>
  /\ UNCHANGED <<cvars, fvars>>

\* search_subreddit returned: posts = its result, start 'for post in posts'
MainGotPosts ==
  /\ mpc = "searching"
  /\ spc = "returned"
  /\ mposts' = result
  /\ j' = 1
  /\ mpc' = "dedup"
  /\ spc' = "idle"
  /\ posts' = <<>>
  /\ after' = Null
  /\ result' = <<>>
  /\ served' = <<>>
  /\ requested' = <<>>
  /\ attempt' = 0
  /\ fres' = NonePayload
  /\ outcomes' = <<>>
  /\ kept_before' = all_posts
  /\ UNCHANGED <<fpc, jsonErrorClasses, limit, term, all_posts, seen_ids>>
  /\ UNCHANGED cvars

\* one iteration of 'for post in posts'
MainDedup ==
  /\ mpc = "dedup"
  /\ j <= Len(mposts)
  /\ LET post == mposts[j]
     IN /\ IF IsNew(post, seen_ids)
           THEN /\ all_posts' = Append(all_posts, post)
                /\ seen_ids' = seen_ids \cup {post.id}
           ELSE UNCHANGED <<all_posts, seen_ids>>
  /\ j' = j + 1
  /\ UNCHANGED <<mpc, term, mposts, kept_before>>
  /\ UNCHANGED <<cvars, fvars, svars>>

\* the inner loop is over: time.sleep(3), then the next search term. posts
\* keeps the last search's result until line 182 assigns it again
MainNextTerm ==
  /\ mpc = "dedup"
  /\ j > Len(mposts)
  /\ term' = term + 1
  /\ mpc' = "for"
  /\ kept_before' = all_posts
  /\ UNCHANGED <<all_posts, seen_ids, mposts, j>>
  /\ UNCHANGED <<cvars, fvars, svars>>

\* all terms searched: main goes on to save all_posts
MainDone ==
  /\ mpc = "for"
  /\ term > NumTerms
  /\ mpc' = "done"
  /\ UNCHANGED <<term, all_posts, seen_ids, mposts, j, kept_before>>
  /\ UNCHANGED <<cvars, fvars, svars>>

\* an exception out of search_subreddit ends main
MainCrash ==
  /\ mpc = "searching"
  /\ spc = "raised"
  /\ mpc' = "crashed"
  /\ spc' = "idle"
  /\ UNCHANGED <<posts, after, limit, result, served, requested>>
  /\ UNCHANGED <<term, all_posts, seen_ids, mposts, j, kept_before>>
  /\ UNCHANGED <<cvars, fvars>>

MInit ==
  /\ CIdle
  /\ FIdle
  /\ jsonErrorClasses \in JsonErrorBuilds
  /\ limit = MaxLimit
  /\ spc = "idle"
  /\ SStart
  /\ mpc = "for"
  /\ term = 1
  /\ all_posts = <<>>
  /\ seen_ids = {}
  /\ mposts = <<>>
  /\ j = 1
  /\ kept_before = <<>>

MNext == SNext \/ MainSearch \/ MainGotPosts \/ MainDedup \/ MainNextTerm
           \/ MainDone \/ MainCrash

SpecMain == MInit /\ [][MNext]_vars

\* ------------------------------------------------- comment extraction spec
CommentsInit ==
  /\ CInit
  /\ FIdle
  /\ jsonErrorClasses = {"JSONDecodeError"}
  /\ limit = 0
  /\ spc = "idle"
  /\ SStart
  /\ MIdle

CNext ==
  \/ StackIter /\ UNCHANGED <<fvars, svars, mvars>>
  \/ StackReturn /\ UNCHANGED <<fvars, svars, mvars>>
  \/ RecExtract /\ UNCHANGED <<fvars, svars, mvars>>

SpecComments == CommentsInit /\ [][CNext]_vars

\* ------------------------------------------ properties of the extraction
\* the index paths <<i1, ..., ik>> of all nodes of a children list
RECURSIVE NodePaths(_)
NodePaths(f) ==
  UNION { {<<i>>} \cup { <<i>> \o p : p \in NodePaths(f[i].replies.children) } : i \in 1..Len(f) }

\* the node a path leads to
RECURSIVE NodeAt(_, _)
NodeAt(f, p) ==
  IF Len(p) = 1 THEN f[p[1]] ELSE NodeAt(f[p[1]].replies.children, Tail(p))

\* the non-empty prefixes of a path: the node's ancestors and the node
Prefixes(p) == { SubSeq(p, 1, k) : k \in 1..Len(p) }

\* the comment nodes of the tree: kind t1, below comment nodes only, each
\* ancestor holding its children in a replies object
CommentPaths(f) ==
  { p \in NodePaths(f) :
      \A q \in Prefixes(p) :
         /\ NodeAt(f, q).kind = "t1"
         /\ q # p => NodeAt(f, q).replies.shape = "dict" }

\* the comment nodes that are not excluded and have no excluded ancestor
RetainedPaths(f) ==
  { p \in CommentPaths(f) : \A q \in Prefixes(p) : NodeAt(f, q).author \notin ExcludedAuthors }

\* p comes before q in document order: p is an ancestor of q, or p turns
\* to an earlier sibling where the two paths part
PathBefore(p, q) ==
  \/ Len(p) < Len(q) /\ SubSeq(q, 1, Len(p)) = p
  \/ \E k \in 1..Len(p) :
       /\ k <= Len(q)
       /\ SubSeq(p, 1, k - 1) = SubSeq(q, 1, k - 1)
       /\ p[k] < q[k]

\* the paths of S in document order
RECURSIVE InOrder(_)
InOrder(S) ==
  IF S = {} THEN <<>>
  ELSE LET first == CHOOSE p \in S : \A q \in S \ {p} : PathBefore(p, q)
       IN <<first>> \o InOrder(S \ {first})

\* the manual pre-order listing of the nodes at the paths S, each with its
\* nesting level
PreOrderListing(f, S) ==
  LET ps == InOrder(S)
  IN [i \in 1..Len(ps) |->
        [author |-> Get(NodeAt(f, ps[i]).author, ""), depth |-> Len(ps[i]) - 1]]

\* how often record r occurs in s
Count(s, r) == Cardinality({ i \in 1..Len(s) : s[i] = r })
SameRecords(s, t) ==
  /\ Len(s) = Len(t)
  /\ \A i \in 1..Len(s) : Count(s, s[i]) = Count(t, s[i])

\* the recursive variant alone lists the retained comments in pre-order
\* with their nesting level
RecursivePreOrder ==
  rpc = "done" => FlattenNested(recResult) = PreOrderListing(tree, RetainedPaths(tree))

\* the stack variant reports every comment node once, at its nesting level
StackDepths ==
  cpc = "done" => SameRecords(comments, PreOrderListing(tree, CommentPaths(tree)))

\* C1: both variants emit the pre-order listing of the comment nodes (each
\* node directly followed by its subtree, siblings in source order), the
\* i-th record carrying the nesting level of the i-th node. The stack
\* variant is held to the listing of all the comment nodes it reports, the
\* recursive one to the listing of the comments it keeps.
C1_PreOrder ==
  /\ rpc = "done" => FlattenNested(recResult) = PreOrderListing(tree, RetainedPaths(tree))
  /\ cpc = "done" => comments = PreOrderListing(tree, CommentPaths(tree))

\* C2: in the output of either variant no record has an excluded author,
\* no descendant of an excluded comment appears, and every other comment
\* whose ancestors are all kept does appear.
C2_Exclusion ==
  /\ rpc = "done" =>
       /\ \A i \in 1..Len(FlattenNested(recResult)) :
             FlattenNested(recResult)[i].author \notin ExcludedAuthors
       /\ SameRecords(FlattenNested(recResult), PreOrderListing(tree, RetainedPaths(tree)))
  /\ cpc = "done" =>
       /\ \A i \in 1..Len(comments) : comments[i].author \notin ExcludedAuthors
       /\ SameRecords(comments, PreOrderListing(tree, RetainedPaths(tree)))

\* C10: the recursive variant read in pre-order and the stack variant give
\* the same sequence of (comment, depth) records for every input tree.
C10_SameOutput ==
  (rpc = "done" /\ cpc = "done") => FlattenNested(recResult) = comments

\* ------------------------------------- properties of fetch_with_retry
\* the attempts made so far in the current call all failed in transport
AllTransport(n) == \A i \in 1..n : outcomes[i].kind = "transport"

\* C3: a call issues at most 3 GET attempts; when every attempt fails in
\* transport it returns None after exactly 3 attempts; when attempts
\* 1..k-1 fail in transport and attempt k succeeds it returns the payload
\* of attempt k, and attempt k is the last one of the call.
C3_AtMostThreeAttempts ==
  /\ Len(outcomes) <= 3
  /\ fpc = "try" => Len(outcomes) < 3
  /\ (fpc = "returned" /\ AllTransport(Len(outcomes))) =>
        (Len(outcomes) = 3 /\ fres = NonePayload)
  /\ \A k \in 1..Len(outcomes) :
        (outcomes[k].kind = "ok" /\ AllTransport(k - 1)) =>
           /\ Len(outcomes) = k
           /\ fpc \in {"returned", "idle"}
           /\ fres = outcomes[k].payload

\* the third attempt succeeded after two transport failures and its
\* page is what the call returned
C3_Witness ==
  /\ fpc = "returned"
  /\ Len(outcomes) = 3
  /\ AllTransport(2)
  /\ outcomes[3].kind = "ok"
  /\ fres = outcomes[3].payload
  /\ fres.kind = "page"

\* C4: an attempt whose body cannot be decoded ends the attempt loop: it
\* is the last GET of the call, whichever attempt it is.
C4_DecodeAborts ==
  \A i \in 1..Len(outcomes) :
     outcomes[i].kind = "undecodable" => (Len(outcomes) = i /\ fpc # "try")

\* ------------------------------------- properties of search_subreddit
\* the posts of the pages served so far, in page order then in-page order
RECURSIVE Ingested(_)
Ingested(pages) ==
  IF pages = <<>> THEN <<>>
  ELSE Ingested(SubSeq(pages, 1, Len(pages) - 1))
         \o [i \in 1..Len(pages[Len(pages)].children) |->
               extract_post_data(pages[Len(pages)].children[i])]

\* r is the first min(n, Len(all)) elements of all
IsFirstOf(r, all, n) ==
  /\ Len(r) = (IF n < Len(all) THEN n ELSE Len(all))
  /\ \A i \in 1..Len(r) : r[i] = all[i]

\* C5: the returned sequence is exactly the first min(limit, total
\* ingested) posts in ingestion order.
C5_LimitTruncation ==
  spc = "returned" => IsFirstOf(result, Ingested(served), limit)

\* two pages of two posts each were ingested, the posts of a page having
\* different ids, and limit = 3 falls inside the second page: the first
\* page and the first post of the second were returned, in that order
C5_Witness ==
  /\ spc = "returned"
  /\ limit = 3
  /\ Len(served) = 2
  /\ Len(served[1].children) = 2
  /\ Len(served[2].children) = 2
  /\ served[1].children[1].id # served[1].children[2].id
  /\ served[2].children[1].id # served[2].children[2].id
  /\ Len(result) = 3
  /\ result[1].id = served[1].children[1].id
  /\ result[2].id = served[1].children[2].id
  /\ result[3].id = served[2].children[1].id

\* every call of fetch_with_retry so far returned a non-empty page, all
\* but the last with a continuation cursor, the last with a null cursor
CursorRun ==
  /\ Len(served) >= 1
  /\ Len(requested) = Len(served)
  /\ \A i \in 1..Len(served) : served[i].children # <<>>
  /\ \A i \in 1..(Len(served) - 1) : TruthyStr(served[i].after)
  /\ served[Len(served)].after = Null

\* one request per page, the first without 'after', each later one with
\* the cursor of the page before it, none after the null-cursor page
RequestsFollowCursors ==
  /\ requested[1] = Missing
  /\ \A i \in 2..Len(requested) : requested[i] = served[i - 1].after
  /\ spc = "returned"
  /\ fpc = "idle"

\* C6 as stated: after such a run the search has asked for each page
\* once, following the cursors, and returns the posts of all the pages.
C6_ReturnsAllPages ==
  (CursorRun /\ fpc = "idle") => (RequestsFollowCursors /\ result = Ingested(served))

\* C6: after such a run the search has asked for each page once,
\* following the cursors, asks for nothing more, and returns the posts of
\* all the pages, the last one included, cut to the first limit posts.
C6_ReturnsAllPagesUpToLimit ==
  (CursorRun /\ fpc = "idle") =>
     (RequestsFollowCursors /\ IsFirstOf(result, Ingested(served), limit))

\* two pages were served, the second ending the run, and both pages'
\* posts were returned
C6_Witness ==
  /\ CursorRun
  /\ fpc = "idle"
  /\ Len(served) = 2
  /\ requested = <<Missing, served[1].after>>
  /\ Len(result) = 2
  /\ result = Ingested(served)

\* C7: no page fetch is issued once the running count of posts has
\* reached limit, the count being checked after each page.
C7_StopsAtLimit ==
  (spc = "fetch" /\ Len(requested) >= 2) => Len(posts) < limit

\* C8: when a call of fetch_with_retry returns None the search stops and
\* returns, without raising, the posts of the pages fetched before, cut to
\* limit; nothing when it was the first page.
C8_PartialOnFailure ==
  (fpc = "idle" /\ Len(requested) >= 1 /\ fres = NonePayload) =>
     /\ spc = "returned"
     /\ IsFirstOf(result, Ingested(served), limit)
     /\ Len(requested) = 1 => result = <<>>

\* the fetch of the second page failed after three attempts and the first
\* page's posts were returned
C8_Witness ==
  /\ spc = "returned"
  /\ fpc = "idle"
  /\ fres = NonePayload
  /\ Len(outcomes) = 3
  /\ AllTransport(3)
  /\ Len(requested) = 2
  /\ Len(served) = 1
  /\ Len(result) >= 1

\* ----------------------------------------------------- properties of main
\* the elements of s whose id no earlier element has, in order
RECURSIVE FirstOccurrences(_)
FirstOccurrences(s) ==
  IF s = <<>> THEN <<>>
  ELSE LET front == SubSeq(s, 1, Len(s) - 1)
           last == s[Len(s)]
       IN IF \E k \in 1..Len(front) : front[k].id = last.id
          THEN FirstOccurrences(front)
          ELSE Append(FirstOccurrences(front), last)

\* C9: all_posts never holds two posts with the same id, seen_ids is the
\* set of the ids of all_posts, and while the posts of a query are gone
\* through all_posts is what was kept before the query followed by the
\* posts gone through so far, reduced to the first occurrence of each id,
\* in order.
C9_UniqueIds ==
  /\ \A a, b \in 1..Len(all_posts) : all_posts[a].id = all_posts[b].id => a = b
  /\ seen_ids = { all_posts[i].id : i \in 1..Len(all_posts) }
  /\ mpc = "dedup" =>
        all_posts = FirstOccurrences(kept_before \o SubSeq(mposts, 1, j - 1))
  /\ mpc # "dedup" =>
        all_posts = FirstOccurrences(kept_before \o mposts)

\* the second query's posts have been gone through: one had an id kept
\* from the first query and was dropped, another was new and was appended
C9_Witness ==
  /\ mpc = "dedup"
  /\ term = 2
  /\ j = Len(mposts) + 1
  /\ Len(kept_before) >= 1
  /\ Len(all_posts) > Len(kept_before)
  /\ Len(all_posts) < Len(kept_before) + Len(mposts)

====
